---- MODULE Spec2Model ----
(***************************************************************************)
(* Model of the fixed-content bracelet generator (bracelets.py) and of the *)
(* isomer wrapper (ferecrystal_isomers.py).                                *)
(*                                                                         *)
(* Python lists are modelled as TLA+ sequences; Python's 0-based index i   *)
(* of a list s is position i+1 of the sequence, a negative index counts    *)
(* from the end, and an index outside -len..len-1 raises IndexError.       *)
(* The sources are Python 2 (print statements, basestring): `/` is true    *)
(* division because of `from __future__ import division`, and an int       *)
(* compares less than a list.                                              *)
(***************************************************************************)
EXTENDS Integers, Sequences, FiniteSets, TLC

VARIABLES
    components,   \* the content vector handed to the constructor
    pc,           \* where the constructor / generator stands
    dll,          \* the DoubleLinkedList object (n, n_items, n_tot, next, prev, head)
    lenenc,       \* run-length list: lenenc.m is lenenc[0], lenenc.runs[i] is lenenc[i]
    run,          \* the shared `run` array of get_bracelets
    stack,        \* active build_bracelets calls, innermost last, each with its
                  \* arguments, its loop variable j and the shared state it was entered with
    out,          \* sequences yielded by get_bracelets so far, in yield order
    bracelets,    \* Bracelets._bracelets once the constructor has returned
    removed,      \* ring exercise: symbols removed and not yet added back (LIFO)
    probe,        \* ring exercise: the last remove(j); add(j) pair and the ring before it
    subset        \* outcome of the last get_isomer_subset call

vars == <<components, pc, dll, lenenc, run, stack, out, bracelets, removed, probe, subset>>

(***************************************************************************)
(* Bounds                                                                  *)
(***************************************************************************)
MaxK == 3        \* longest content vector
MaxTot == 7      \* largest sum of a content vector
MaxNeg == 1      \* how far below zero an entry handed to the constructor may lie
MaxBadTot == 4   \* largest sum of absolute values of a vector with an entry < 1

(***************************************************************************)
(* Python list helpers                                                     *)
(***************************************************************************)
InRange(s, i) == i >= 0 - Len(s) /\ i < Len(s)

Pos(s, i) == IF i >= 0 THEN i + 1 ELSE Len(s) + i + 1

Get(s, i) == s[Pos(s, i)]

Put(s, i, v) == [s EXCEPT ![Pos(s, i)] = v]

Repeat(v, k) == [i \in 1..k |-> v]

RECURSIVE SumSeq(_)
SumSeq(s) == IF s = <<>> THEN 0 ELSE s[1] + SumSeq(Tail(s))

\* Python's list comparison: the first differing item decides, a proper prefix is smaller
RECURSIVE LexLess(_, _)
LexLess(x, y) ==
    IF y = <<>> THEN FALSE
    ELSE IF x = <<>> THEN TRUE
    ELSE IF x[1] # y[1] THEN x[1] < y[1]
    ELSE LexLess(Tail(x), Tail(y))

LexLeq(x, y) == x = y \/ LexLess(x, y)

(***************************************************************************)
(* DoubleLinkedList                                                        *)
(***************************************************************************)
\* mutant of DLLInit: the ring runs from the smallest symbol up
DLLInit_ascending(component_list) ==
    LET k == Len(component_list) IN
    [ n       |-> component_list,
      n_items |-> k,
      n_tot   |-> SumSeq(component_list),
      next    |-> [i \in 1..(k + 1) |-> IF i = k THEN -1 ELSE IF i = k + 1 THEN 0 ELSE i],
      prev    |-> [i \in 1..(k + 1) |-> IF i = 1 THEN k ELSE i - 2],
      head    |-> 0 ]

DLLInit(component_list) ==
    LET k == Len(component_list) IN
    [ n       |-> component_list,
      n_items |-> k,
      n_tot   |-> SumSeq(component_list),
      next    |-> [i \in 1..(k + 1) |-> i - 2],
      prev    |-> [i \in 1..(k + 1) |-> i],
      head    |-> k - 1 ]

\* mutant of add: the head is not restored
add_keeps_head(d, j) ==
    LET n == Get(d.next, j)
        p == Get(d.prev, j)
    IN [d EXCEPT !.prev = Put(d.prev, n, j),
                 !.next = Put(d.next, p, j)]

\* mutant of remove: the head does not advance
remove_keeps_head(d, j) ==
    LET n == Get(d.next, j)
        p == Get(d.prev, j)
    IN [d EXCEPT !.next = Put(d.next, p, n),
                 !.prev = Put(d.prev, n, p)]

addOK(d, j) ==
    /\ InRange(d.next, j) /\ InRange(d.prev, j)
    /\ InRange(d.prev, Get(d.next, j))
    /\ InRange(d.next, Get(d.prev, j))

add(d, j) ==
    LET n == Get(d.next, j)
        p == Get(d.prev, j)
        prev1 == Put(d.prev, n, j)
        next1 == Put(d.next, p, j)
    IN [d EXCEPT !.prev = prev1,
                 !.next = next1,
                 !.head = IF Get(prev1, j) = d.n_items THEN j ELSE d.head]

removeOK(d, j) == addOK(d, j)

remove(d, j) ==
    LET head1 == IF j = d.head THEN Get(d.next, j) ELSE d.head
        n == Get(d.next, j)
        p == Get(d.prev, j)
    IN [d EXCEPT !.head = head1,
                 !.next = Put(d.next, p, n),
                 !.prev = Put(d.prev, n, p)]

\* the symbols met by following next from head until -1
RECURSIVE Walk(_, _, _)
Walk(d, j, fuel) ==
    IF j = -1 \/ fuel = 0 \/ ~InRange(d.next, j) THEN <<>>
    ELSE <<j>> \o Walk(d, Get(d.next, j), fuel - 1)

Traversal(d) == Walk(d, d.head, d.n_items + 1)

Ring(d) == {Traversal(d)[i] : i \in 1..Len(Traversal(d))}

\* what a build_bracelets call shares with its callers through dll and lenenc:
\* the counts, the head, the ring in traversal order, and the run-length list
Scratch(d, l) == [n |-> d.n, head |-> d.head, ring |-> Traversal(d), lenenc |-> l]

(***************************************************************************)
(* Run-length list                                                         *)
(***************************************************************************)
LastRun(l) == l.runs[Len(l.runs)]

update_run_length(j, l) ==
    IF LastRun(l)[1] = j
    THEN [l EXCEPT !.runs[Len(l.runs)] = <<j, LastRun(l)[2] + 1>>]
    ELSE [m |-> l.m + 1, runs |-> Append(l.runs, <<j, 1>>)]

\* mutant of restore_run_length: a run that drops to length 0 is kept
restore_run_length_no_delete(l) ==
    [l EXCEPT !.runs[Len(l.runs)] = <<LastRun(l)[1], LastRun(l)[2] - 1>>]

restore_run_length(l) ==
    IF LastRun(l)[2] = 1
    THEN [m |-> l.m - 1, runs |-> SubSeq(l.runs, 1, Len(l.runs) - 1)]
    ELSE [l EXCEPT !.runs[Len(l.runs)] = <<LastRun(l)[1], LastRun(l)[2] - 1>>]

\* `lenenc[i+1][0] < lenenc[m-i+1]` compares an int with a list: always
\* true in Python 2, where numbers order before every other type
IntLtList == TRUE

\* the while loop of check_rev: `i <= m/2` is `2*i <= m` under true division
RECURSIVE CheckRevIndex(_, _)
CheckRevIndex(l, i) ==
    IF l.runs[i] = l.runs[l.m - i + 1] /\ 2 * i <= l.m
    THEN CheckRevIndex(l, i + 1)
    ELSE i

check_rev(l) ==
    LET m == l.m
        i == CheckRevIndex(l, 1)
        L(x) == l.runs[x]
    IN  IF 2 * i > m THEN 0
        ELSE IF L(i)[1] < L(m - i + 1)[1] THEN 1
        ELSE IF L(i)[1] > L(m - i + 1)[1] THEN -1
        ELSE IF \/ (L(i)[2] < L(m - i + 1)[2] /\ IntLtList)
                \/ (L(i)[2] > L(m - i + 1)[2] /\ L(i)[1] < L(m - i)[1])
             THEN 1
             ELSE -1

(***************************************************************************)
(* Constructor inputs                                                      *)
(***************************************************************************)
\* sum of the absolute values of the entries
RECURSIVE Weight(_)
Weight(s) ==
    IF s = <<>> THEN 0
    ELSE (IF s[1] < 0 THEN 0 - s[1] ELSE s[1]) + Weight(Tail(s))

\* a content vector the specification calls valid: k >= 2 positive integers
ValidContent(c) == Len(c) >= 2 /\ \A i \in 1..Len(c) : c[i] >= 1

\* the vectors handed to the constructor: lists of 1..MaxK ints, valid or not
Contents ==
    {c \in UNION {[1..k -> (0 - MaxNeg)..MaxTot] : k \in 1..MaxK} :
        Weight(c) <= (IF ValidContent(c) THEN MaxTot ELSE MaxBadTot)}

Label == <<"A", "B", "C", "D", "E">>

\* the `elements` argument of Isomers: one label per symbol
elements == [i \in 1..Len(components) |-> Label[i]]

NoDLL == [n |-> <<>>, n_items |-> 0, n_tot |-> 0, next |-> <<>>, prev |-> <<>>, head |-> -1]

NoLenenc == [m |-> 0, runs |-> <<>>]

NoProbe == [j |-> -1, before |-> NoDLL]

NoSubset == [status |-> "none", given |-> FALSE, key |-> "", val |-> 0, isomers |-> <<>>]

Init ==
    /\ components \in Contents
    /\ pc = "new"
    /\ dll = NoDLL
    /\ lenenc = NoLenenc
    /\ run = <<>>
    /\ stack = <<>>
    /\ out = <<>>
    /\ bracelets = <<>>
    /\ removed = <<>>
    /\ probe = NoProbe
    /\ subset = NoSubset

(***************************************************************************)
(* Isomers.__init__ / Bracelets.__init__ up to the DoubleLinkedList        *)
(***************************************************************************)
\* the model's inputs are lists of ints, so the isinstance checks pass
Construct ==
    /\ pc = "new"
    /\ IF Len(components) < 2 \/ Len(components) > 26
       THEN /\ pc' = "ValueError"
            /\ UNCHANGED dll
       ELSE /\ pc' = "constructed"
            /\ dll' = DLLInit(components)
    /\ UNCHANGED <<components, lenenc, run, stack, out, bracelets, removed, probe, subset>>

(***************************************************************************)
(* get_bracelets: the seed step, up to the first build_bracelets call      *)
(***************************************************************************)
\* mutant of Placeholder: the sequence is pre-filled with the first symbol
Placeholder_first(d) == 0

\* line 153: positions not yet placed hold the last symbol
Placeholder(d) == d.n_items - 1

Seed ==
    /\ pc = "constructed"
    /\ LET run0 == Repeat(0, dll.n_tot)
           a0 == Repeat(Placeholder(dll), dll.n_tot)
           d1 == [dll EXCEPT !.n = Put(dll.n, 0, Get(dll.n, 0) - 1)]
       IN  IF ~InRange(a0, 0)
           THEN /\ pc' = "IndexError"
                /\ UNCHANGED <<dll, lenenc, run, stack>>
           ELSE /\ pc' = "gen"
                /\ run' = run0
                /\ lenenc' = [m |-> 1, runs |-> << <<0, 1>> >>]
                /\ dll' = IF Get(d1.n, 0) = 0 THEN remove(d1, 0) ELSE d1
                /\ stack' = << [a |-> Put(a0, 0, 0), t |-> 2, p |-> 1, r |-> 1,
                                z |-> 2, b |-> 1, RS |-> FALSE, j |-> -1,
                                at |-> "entry",
                                entered |-> Scratch(dll', lenenc')] >>
    /\ UNCHANGED <<components, out, bracelets, removed, probe, subset>>

Top == stack[Len(stack)]

\* the innermost call returns; the generator is exhausted when it was the outermost
Return(stk) ==
    /\ stack' = SubSeq(stk, 1, Len(stk) - 1)
    /\ pc' = IF Len(stk) = 1 THEN "exhausted" ELSE "gen"

Raise ==
    /\ pc' = "IndexError"
    /\ UNCHANGED <<dll, lenenc, run, stack, out>>

(***************************************************************************)
(* build_bracelets, lines 71-94: the reflection update, the completion     *)
(* test (with its yield) and the start of the candidate loop               *)
(***************************************************************************)
\* `t - 1 > r + (n_tot - r)/2` under true division
PastMiddle(f) == 2 * (f.t - 1) > f.r + dll.n_tot

MirrorOK(f) == InRange(f.a, f.t - 2) /\ InRange(f.a, dll.n_tot - f.t + f.r + 1)

\* RS after lines 71-75
MirrorRS(f) ==
    IF ~PastMiddle(f) THEN f.RS
    ELSE LET x == Get(f.a, f.t - 2)
             y == Get(f.a, dll.n_tot - f.t + f.r + 1)
         IN  IF x > y THEN FALSE ELSE IF x < y THEN TRUE ELSE f.RS

\* line 77
AtCompletion(f) == Get(dll.n, -1) = dll.n_tot - f.t + 1

\* line 93
AtExtension(f) == ~AtCompletion(f) /\ Get(dll.n, 0) # dll.n_tot - f.t + 1

\* line 81
TailTest(f) == Get(dll.n, -1) > 0 /\ f.r + 1 # f.t

CompletionOK(f) ==
    /\ InRange(run, f.t - f.p - 1)
    /\ TailTest(f) => f.b + 1 \in 1..Len(lenenc.runs)

\* p after lines 78-79
CompletionP(f) ==
    IF Get(dll.n, -1) > Get(run, f.t - f.p - 1) THEN dll.n_tot ELSE f.p

\* mutant of CompletionRS: the comparison of lines 81-88 is skipped
CompletionRS_skipped(f) == MirrorRS(f)

\* RS after lines 81-88
CompletionRS(f) ==
    LET last == Get(dll.n, -1)
        B == lenenc.runs[f.b + 1]
    IN  IF ~TailTest(f) THEN MirrorRS(f)
        ELSE IF B[1] = dll.n_items - 1 /\ B[2] > last THEN TRUE
        ELSE IF B[1] # dll.n_items - 1 \/ B[2] < last THEN FALSE
        ELSE MirrorRS(f)

\* mutant of Emits: any period that divides the length is accepted
Emits_any_period(f) == ~CompletionRS(f) /\ dll.n_tot % CompletionP(f) = 0

\* mutant of Emits: the period is not refreshed by lines 78-79
Emits_stale_p(f) == ~CompletionRS(f) /\ dll.n_tot = f.p

\* line 90
Emits(f) == ~CompletionRS(f) /\ dll.n_tot = CompletionP(f)

BuildEntry ==
    /\ pc = "gen"
    /\ Top.at = "entry"
    /\ LET f == Top IN
       IF PastMiddle(f) /\ ~MirrorOK(f) THEN Raise
       ELSE IF AtCompletion(f) THEN
            IF ~CompletionOK(f) THEN Raise
            ELSE /\ out' = IF Emits(f) THEN Append(out, f.a) ELSE out
                 /\ Return(stack)
                 /\ UNCHANGED <<dll, lenenc, run>>
       ELSE IF AtExtension(f) THEN
            /\ stack' = [stack EXCEPT ![Len(stack)] =
                            [f EXCEPT !.RS = MirrorRS(f), !.j = dll.head, !.at = "loop"]]
            /\ pc' = "gen"
            /\ UNCHANGED <<dll, lenenc, run, out>>
       ELSE /\ Return(stack)
            /\ UNCHANGED <<dll, lenenc, run, out>>
    /\ UNCHANGED <<components, bracelets, removed, probe, subset>>

(***************************************************************************)
(* build_bracelets, lines 95-122 and 130: one test of the loop condition,  *)
(* then either one candidate j placed (and the recursive call entered, or  *)
(* the branch pruned) or the loop left and the call returning              *)
(***************************************************************************)
LoopOK(f) ==
    /\ InRange(run, f.z - 1)
    /\ InRange(dll.n, f.j)
    /\ InRange(f.a, f.t - 1)
    /\ Get(dll.n, f.j) - 1 = 0 => removeOK(dll, f.j)

\* lines 98-100
TakeSymbol(d, j) ==
    LET d1 == [d EXCEPT !.n = Put(d.n, j, Get(d.n, j) - 1)]
    IN  IF Get(d1.n, j) = 0 THEN remove(d1, j) ELSE d1

LoopStep ==
    /\ pc = "gen"
    /\ Top.at = "loop"
    /\ LET f == Top
           idx == f.t - f.p - 1
       IN
       IF ~InRange(f.a, idx) THEN Raise
       ELSE IF f.j >= Get(f.a, idx) THEN
            IF ~LoopOK(f) THEN Raise
            ELSE LET lenenc1 == update_run_length(f.j, lenenc)
                     a1 == Put(f.a, f.t - 1, f.j)
                     z2 == IF f.j # dll.n_items - 1 THEN f.t + 1 ELSE f.z
                     p2 == IF f.j # Get(a1, idx) THEN f.t ELSE f.p
                     c == check_rev(lenenc1)
                     caller == [f EXCEPT !.a = a1, !.at = "undo"]
                     callee == [a |-> a1, t |-> f.t + 1, p |-> p2,
                                r |-> IF c = 0 THEN f.t ELSE f.r,
                                z |-> z2,
                                b |-> IF c = 0 THEN lenenc1.m ELSE f.b,
                                RS |-> IF c = 0 THEN FALSE ELSE f.RS,
                                j |-> -1, at |-> "entry",
                                entered |-> Scratch(TakeSymbol(dll, f.j), lenenc1)]
                     stack1 == [stack EXCEPT ![Len(stack)] = caller]
                 IN  /\ run' = Put(run, f.z - 1, f.t - f.z)
                     /\ lenenc' = lenenc1
                     /\ dll' = TakeSymbol(dll, f.j)
                     /\ stack' = IF c = -1 THEN stack1 ELSE Append(stack1, callee)
                     /\ pc' = "gen"
                     /\ UNCHANGED out
       ELSE IF ~InRange(f.a, f.t - 1) THEN Raise
       ELSE /\ Return(stack)
            /\ UNCHANGED <<dll, lenenc, run, out>>
    /\ UNCHANGED <<components, bracelets, removed, probe, subset>>

(***************************************************************************)
(* build_bracelets, lines 124-128: the undo of the candidate just tried    *)
(***************************************************************************)
\* mutant of GiveBack: the count is restored, the symbol is not put back
GiveBack_no_add(d, j) == [d EXCEPT !.n = Put(d.n, j, Get(d.n, j) + 1)]

\* lines 124-126
GiveBack(d, j) ==
    LET d1 == IF Get(d.n, j) = 0 THEN add(d, j) ELSE d
    IN  [d1 EXCEPT !.n = Put(d1.n, j, Get(d1.n, j) + 1)]

\* mutant of NextCandidate: the loop stays on the same candidate
NextCandidate_same(d, j) == j

\* line 128
NextCandidate(d, j) == Get(d.next, j)

Undo ==
    /\ pc = "gen"
    /\ Top.at = "undo"
    /\ LET f == Top IN
       IF Get(dll.n, f.j) = 0 /\ ~addOK(dll, f.j) THEN Raise
       ELSE /\ dll' = GiveBack(dll, f.j)
            /\ lenenc' = restore_run_length(lenenc)
            /\ stack' = [stack EXCEPT ![Len(stack)] =
                            [f EXCEPT !.j = NextCandidate(dll', f.j), !.at = "loop"]]
            /\ pc' = "gen"
            /\ UNCHANGED <<run, out>>
    /\ UNCHANGED <<components, bracelets, removed, probe, subset>>

(***************************************************************************)
(* Bracelets.__init__, line 40: the yielded sequences are sorted           *)
(***************************************************************************)
\* mutant of sorted: the yield order is kept
sorted_as_yielded(s) == s

sorted(s) == SortSeq(s, LexLess)

Finish ==
    /\ pc = "exhausted"
    /\ bracelets' = sorted(out)
    /\ pc' = "done"
    /\ UNCHANGED <<components, dll, lenenc, run, stack, out, removed, probe, subset>>

(***************************************************************************)
(* Bracelets.as_tuple and the isomer wrapper                               *)
(***************************************************************************)
\* the loop of as_tuple over brac[1:], with the run (curr, n) in progress
RECURSIVE AsTupleLoop(_, _, _, _)
AsTupleLoop(rest, curr, n, tuple_list) ==
    IF rest = <<>> THEN Append(tuple_list, <<curr, n>>)
    ELSE IF rest[1] = curr THEN AsTupleLoop(Tail(rest), curr, n + 1, tuple_list)
    ELSE AsTupleLoop(Tail(rest), rest[1], 1, Append(tuple_list, <<curr, n>>))

\* mutant of as_tuple: the loop runs over brac instead of brac[1:]
as_tuple_from_start(bracs) == [x \in 1..Len(bracs) |-> AsTupleLoop(bracs[x], 0, 1, <<>>)]

as_tuple(bracs) == [x \in 1..Len(bracs) |-> AsTupleLoop(Tail(bracs[x]), 0, 1, <<>>)]

\* Isomers._as_tuples: symbol indices replaced by the element labels
as_tuples(bracs) ==
    LET tl == as_tuple(bracs) IN
    [x \in 1..Len(tl) |-> [y \in 1..Len(tl[x]) |-> <<elements[tl[x][y][1] + 1], tl[x][y][2]>>]]

\* '%d' of a run length (run lengths stay below 10 within the bounds)
DecStr == <<"1", "2", "3", "4", "5", "6", "7", "8", "9">>

\* Isomers._isomers_from_tuples: '(label)count' joined by '-', as a token list
RECURSIVE FormatIsomer(_)
FormatIsomer(isomer) ==
    IF isomer = <<>> THEN <<>>
    ELSE <<"(", isomer[1][1], ")", DecStr[isomer[1][2]]>>
         \o (IF Len(isomer) > 1 THEN <<"-">> ELSE <<>>)
         \o FormatIsomer(Tail(isomer))

isomers_from_tuples(isomers) == [x \in 1..Len(isomers) |-> FormatIsomer(isomers[x])]

\* names bound inside _filter_thickness: its parameters and locals, and the
\* module's globals; line 189 reads the name `thickness_conditons`
FilterThicknessNames ==
    {"self", "isomers", "thickness_conditions", "filtered_isomers", "intvals",
     "isomer", "append_isomer", "i", "val", "key", "Bracelets", "ascii_uppercase", "Isomers"}

\* lines 194-201 for one isomer, every int value having become [val, val] at line 286
PassesThickness(isomer, conds) ==
    \A y \in 1..Len(isomer) :
        isomer[y][1] \in DOMAIN conds =>
            LET val == conds[isomer[y][1]]
            IN  ~(isomer[y][2] < val[1] \/ (val[2] > 0 /\ isomer[y][2] > val[2]))

filter_thickness(isomers, conds) ==
    IF "thickness_conditons" \notin FilterThicknessNames
    THEN [status |-> "NameError", isomers |-> <<>>]
    ELSE [status |-> "returned",
          isomers |-> SelectSeq(isomers, LAMBDA iso : PassesThickness(iso, conds))]

\* get_isomer_subset(thickness_conditions = {key: val}) when given, else
\* get_isomer_subset() with both conditions None
GetIsomerSubset(given, key, val) ==
    /\ pc = "done"
    /\ LET isomer_subset == as_tuples(bracelets)
           conds == (key :> <<val, val>>)
           filtered == IF given THEN filter_thickness(isomer_subset, conds)
                       ELSE [status |-> "returned", isomers |-> isomer_subset]
       IN  subset' = [status |-> filtered.status, given |-> given,
                      key |-> IF given THEN key ELSE "",
                      val |-> IF given THEN val ELSE 0,
                      isomers |-> IF filtered.status = "returned"
                                  THEN isomers_from_tuples(filtered.isomers)
                                  ELSE <<>>]
    /\ UNCHANGED <<components, pc, dll, lenenc, run, stack, out, bracelets, removed, probe>>

Next ==
    \/ Construct
    \/ Seed
    \/ BuildEntry
    \/ LoopStep
    \/ Undo
    \/ Finish
    \/ \E key \in {elements[x] : x \in 1..Len(elements)}, val \in 1..MaxTot :
          GetIsomerSubset(TRUE, key, val)
    \/ GetIsomerSubset(FALSE, "", 0)

Spec == Init /\ [][Next]_vars

\* the statements of the constructor: Bracelets(content) is one sequential
\* call, which keeps executing until it returns or raises
Generation == Construct \/ Seed \/ BuildEntry \/ LoopStep \/ Undo \/ Finish

SpecFair == Spec /\ WF_vars(Generation)

(***************************************************************************)
(* The ring on its own: remove and add in LIFO pairing, as build_bracelets *)
(* uses them, and a remove(j) directly followed by add(j)                  *)
(***************************************************************************)
InitRing ==
    /\ components \in {c \in Contents : ValidContent(c)}
    /\ pc = "ring"
    /\ dll = DLLInit(components)
    /\ lenenc = NoLenenc
    /\ run = <<>>
    /\ stack = <<>>
    /\ out = <<>>
    /\ bracelets = <<>>
    /\ removed = <<>>
    /\ probe = NoProbe
    /\ subset = NoSubset

RingRemove(j) ==
    /\ j \in Ring(dll)
    /\ dll' = remove(dll, j)
    /\ removed' = Append(removed, j)
    /\ probe' = NoProbe
    /\ UNCHANGED <<components, pc, lenenc, run, stack, out, bracelets, subset>>

RingAdd ==
    /\ removed # <<>>
    /\ dll' = add(dll, removed[Len(removed)])
    /\ removed' = SubSeq(removed, 1, Len(removed) - 1)
    /\ probe' = NoProbe
    /\ UNCHANGED <<components, pc, lenenc, run, stack, out, bracelets, subset>>

RingRemoveAdd(j) ==
    /\ j \in Ring(dll)
    /\ dll' = add(remove(dll, j), j)
    /\ probe' = [j |-> j, before |-> dll]
    /\ UNCHANGED <<components, pc, lenenc, run, stack, out, bracelets, removed, subset>>

NextRing ==
    \/ \E j \in 0..MaxK : RingRemove(j)
    \/ RingAdd
    \/ \E j \in 0..MaxK : RingRemoveAdd(j)

SpecRing == InitRing /\ [][NextRing]_vars

(***************************************************************************)
(* Vocabulary of the properties                                            *)
(***************************************************************************)
Rotate(s, i) == [x \in 1..Len(s) |-> s[((x + i - 1) % Len(s)) + 1]]

Reverse(s) == [x \in 1..Len(s) |-> s[Len(s) + 1 - x]]

\* every rotation of s and of its reversal
DihedralImages(s) ==
    {Rotate(s, i) : i \in 0..(Len(s) - 1)} \cup {Rotate(Reverse(s), i) : i \in 0..(Len(s) - 1)}

Equivalent(x, y) == y \in DihedralImages(x)

\* s is not a shorter block repeated
Primitive(s) == \A i \in 1..(Len(s) - 1) : Rotate(s, i) # s

Occurrences(s, sym) == Cardinality({x \in 1..Len(s) : s[x] = sym})

HasContent(s, c) ==
    /\ Len(s) = SumSeq(c)
    /\ \A sym \in 0..(Len(c) - 1) : Occurrences(s, sym) = c[sym + 1]

\* every sequence that holds symbol i exactly c[i] times
RECURSIVE Arrangements(_)
Arrangements(c) ==
    IF \A x \in 1..Len(c) : c[x] = 0 THEN {<<>>}
    ELSE UNION {{<<x - 1>> \o rest : rest \in Arrangements([c EXCEPT ![x] = c[x] - 1])} :
                    x \in {y \in 1..Len(c) : c[y] > 0}}

\* every sequence some entry of the bracelet list is equivalent to
Covered == UNION {DihedralImages(bracelets[x]) : x \in 1..Len(bracelets)}

Covering(s) == {x \in 1..Len(bracelets) : Equivalent(bracelets[x], s)}

Built == pc = "done" /\ ValidContent(components)

\* symbols with copies left
Available == {j \in 0..(dll.n_items - 1) : Get(dll.n, j) > 0}

\* build_bracelets is about to execute `j = dll.head` (line 94)
ReadsHead ==
    /\ pc = "gen"
    /\ Top.at = "entry"
    /\ ~(PastMiddle(Top) /\ ~MirrorOK(Top))
    /\ AtExtension(Top)

(***************************************************************************)
(* C1: no two distinct entries of Bracelets(content).bracelets are         *)
(* rotations or reflections of each other.  The code violates this.        *)
(***************************************************************************)
C1_NoEquivalentEntries ==
    Built => \A x, y \in 1..Len(bracelets) :
                 x # y => ~Equivalent(bracelets[x], bracelets[y])

(***************************************************************************)
(* C2 as stated: every arrangement of the multiset is equivalent to        *)
(* exactly one entry.                                                      *)
(***************************************************************************)
C2_EveryArrangementOnce ==
    Built => \A s \in Arrangements(components) : Cardinality(Covering(s)) = 1

(***************************************************************************)
(* C2 as amended: every arrangement that is not a shorter block repeated   *)
(* is a rotation, or a rotation of the reversal, of at least one entry,    *)
(* and a repeated block is equivalent to no entry.                         *)
(***************************************************************************)
C2_PrimitiveCovered ==
    Built => LET covered == Covered
             IN  \A s \in Arrangements(components) : Primitive(s) <=> s \in covered

C2_Witness ==
    /\ Built
    /\ \E s \in Arrangements(components) : ~Primitive(s)
    /\ Len(bracelets) >= 2

(***************************************************************************)
(* C3: every sequence yielded by get_bracelets has length sum(content)     *)
(* and holds each symbol i exactly content[i] times.                       *)
(***************************************************************************)
C3_YieldedHaveContent ==
    ValidContent(components) =>
        \A x \in 1..Len(out) : HasContent(out[x], components)

\* a sequence completed early: its last two positions were never placed
\* explicitly and hold the placeholder
C3_Witness ==
    /\ ValidContent(components)
    /\ \E x \in 1..Len(out) :
          /\ Len(out[x]) >= 4
          /\ out[x][Len(out[x])] = Len(components) - 1
          /\ out[x][Len(out[x]) - 1] = Len(components) - 1

(***************************************************************************)
(* C4: every entry starts with symbol 0 and is lexicographically least     *)
(* among its rotations and the rotations of its reversal.  The code        *)
(* violates this.                                                          *)
(***************************************************************************)
C4_EntriesCanonical ==
    Built => \A x \in 1..Len(bracelets) :
                 /\ bracelets[x][1] = 0
                 /\ \A w \in DihedralImages(bracelets[x]) : LexLeq(bracelets[x], w)

(***************************************************************************)
(* C5: Bracelets([1, 2, 3]).bracelets is exactly the six listed sequences  *)
(* in the listed order.                                                    *)
(***************************************************************************)
C5_Oracle123 ==
    (pc = "done" /\ components = <<1, 2, 3>>) =>
        bracelets = << <<0, 1, 1, 2, 2, 2>>, <<0, 1, 2, 1, 2, 2>>, <<0, 1, 2, 2, 1, 2>>,
                       <<0, 1, 2, 2, 2, 1>>, <<0, 2, 1, 1, 2, 2>>, <<0, 2, 1, 2, 1, 2>> >>

C5_Witness == pc = "done" /\ components = <<1, 2, 3>> /\ Len(out) = 6

(***************************************************************************)
(* C6 as stated: a content vector with k = 2 yields exactly 1 bracelet.    *)
(***************************************************************************)
C6_TwoSymbolsOneBracelet ==
    (Built /\ Len(components) = 2) => Len(bracelets) = 1

(***************************************************************************)
(* C6 as amended: a content vector with k = 2 yields at least 1 bracelet,  *)
(* and exactly 1 when one of the multiplicities is 1 or the content is     *)
(* [2, 2].                                                                 *)
(***************************************************************************)
C6_TwoSymbols ==
    (Built /\ Len(components) = 2) =>
        /\ Len(bracelets) >= 1
        /\ (components[1] = 1 \/ components[2] = 1 \/ components = <<2, 2>>)
               => Len(bracelets) = 1

C6_Witness ==
    /\ Built
    /\ Len(components) = 2
    /\ components[1] = 1
    /\ components[2] >= 3
    /\ Len(bracelets) = 1

(***************************************************************************)
(* C7: a content vector with a multiplicity < 1 is rejected by the         *)
(* constructor's validation before any generation step runs, and no        *)
(* bracelet list is produced.  The code violates this.                     *)
(***************************************************************************)
C7_NonPositiveRejected ==
    (\E x \in 1..Len(components) : components[x] < 1) =>
        pc \in {"new", "ValueError", "TypeError"}

(***************************************************************************)
(* C8: in any ring state reached by LIFO-paired remove/add calls,          *)
(* remove(j) directly followed by add(j), for j in the ring, leaves head,  *)
(* the traversal order and the next array unchanged.                       *)
(***************************************************************************)
C8_RemoveAddRestores ==
    probe.j # -1 =>
        /\ dll.head = probe.before.head
        /\ Traversal(dll) = Traversal(probe.before)
        /\ dll.next = probe.before.next

\* the pair was applied to the current head of a ring that had lost a symbol
C8_Witness ==
    /\ probe.j # -1
    /\ probe.j = probe.before.head
    /\ removed # <<>>
    /\ Len(Traversal(dll)) >= 2

(***************************************************************************)
(* C9 as stated: right after construction of the ring, and whenever        *)
(* build_bracelets reads dll.head, head is the smallest symbol with a      *)
(* remaining count > 0.                                                    *)
(***************************************************************************)
C9_HeadIsSmallest ==
    (ValidContent(components) /\ (pc = "constructed" \/ ReadsHead)) =>
        /\ dll.head \in Available
        /\ \A j \in Available : dll.head <= j

(***************************************************************************)
(* C9 as amended: right after construction of the ring, and whenever       *)
(* build_bracelets reads dll.head, head is the largest symbol with a       *)
(* remaining count > 0.                                                    *)
(***************************************************************************)
C9_HeadIsLargest ==
    (ValidContent(components) /\ (pc = "constructed" \/ ReadsHead)) =>
        /\ dll.head \in Available
        /\ \A j \in Available : dll.head >= j

\* head is read after the largest symbol has been used up
C9_Witness ==
    /\ ValidContent(components)
    /\ ReadsHead
    /\ dll.head # dll.n_items - 1
    /\ Cardinality(Available) >= 2

(***************************************************************************)
(* C10: get_isomer_subset(thickness_conditions = {e: n}) with an integer n *)
(* returns normally, and returns exactly the isomers that have at least    *)
(* one run of e of length n.  The code violates this.                      *)
(***************************************************************************)
HasRun(isomer, key, val) == \E y \in 1..Len(isomer) : isomer[y] = <<key, val>>

C10_ThicknessAtLeastOneRun ==
    (Built /\ subset.given) =>
        /\ subset.status = "returned"
        /\ subset.isomers =
               isomers_from_tuples(
                   SelectSeq(as_tuples(bracelets),
                             LAMBDA iso : HasRun(iso, subset.key, subset.val)))

(***************************************************************************)
(* C11: every entry of as_tuple() is the run-length encoding of the entry  *)
(* of bracelets at the same position: expanding each (symbol, count) pair  *)
(* gives the bracelet back, every count is at least 1, and no two          *)
(* consecutive pairs carry the same symbol.                                *)
(***************************************************************************)
RECURSIVE Expand(_)
Expand(tuple_list) ==
    IF tuple_list = <<>> THEN <<>>
    ELSE Repeat(tuple_list[1][1], tuple_list[1][2]) \o Expand(Tail(tuple_list))

C11_AsTupleIsRunLength ==
    Built =>
        LET tl == as_tuple(bracelets) IN
        /\ Len(tl) = Len(bracelets)
        /\ \A x \in 1..Len(tl) :
              /\ Expand(tl[x]) = bracelets[x]
              /\ \A y \in 1..Len(tl[x]) : tl[x][y][2] >= 1
              /\ \A y \in 1..(Len(tl[x]) - 1) : tl[x][y][1] # tl[x][y + 1][1]

\* an entry whose encoding has a run longer than one, a run of one, and a
\* symbol that comes back after another one
C11_Witness ==
    /\ Built
    /\ \E x \in 1..Len(bracelets) :
          LET e == as_tuple(bracelets)[x] IN
          /\ Len(e) >= 4
          /\ e[1][2] >= 2
          /\ \E y \in 1..Len(e) : e[y][2] = 1
          /\ \E y, w \in 1..Len(e) : y + 1 < w /\ e[y][1] = e[w][1]

(***************************************************************************)
(* C12: whenever a call of build_bracelets has run to exhaustion, dll.n,   *)
(* dll.head, the ring in traversal order and lenenc (lenenc[0] included)   *)
(* are as they were when the call was entered; once get_bracelets is       *)
(* exhausted they are as they were right after the seed step.              *)
(***************************************************************************)
\* the innermost call has nothing left to do but return
Returns ==
    /\ pc = "gen"
    /\ \/ /\ Top.at = "entry"
          /\ ~(PastMiddle(Top) /\ ~MirrorOK(Top))
          /\ AtCompletion(Top) \/ ~AtExtension(Top)
       \/ /\ Top.at = "loop"
          /\ InRange(Top.a, Top.t - Top.p - 1)
          /\ Top.j < Get(Top.a, Top.t - Top.p - 1)

\* dll and lenenc as get_bracelets hands them to the outermost call
SeedScratch ==
    Scratch(TakeSymbol(DLLInit(components), 0), [m |-> 1, runs |-> << <<0, 1>> >>])

C12_UndoDiscipline ==
    /\ Returns => Scratch(dll, lenenc) = Top.entered
    /\ pc \in {"exhausted", "done"} => Scratch(dll, lenenc) = SeedScratch

\* a call returns from its candidate loop after it has tried, and undone,
\* a candidate that used up a symbol, three or more calls deep
C12_Witness ==
    /\ ValidContent(components)
    /\ Returns
    /\ Top.at = "loop"
    /\ Len(stack) >= 3
    /\ Top.j = -1
    /\ \E j \in 0..(dll.n_items - 1) : Get(dll.n, j) = 1
    /\ Len(out) >= 1

(***************************************************************************)
(* C13: at every entry to build_bracelets and at the start of every        *)
(* iteration of its candidate loop, the symbols reached by following next  *)
(* from head are exactly the symbols j with dll.n[j] > 0, and no count is  *)
(* negative.                                                               *)
(***************************************************************************)
C13_RingIsAvailable ==
    (ValidContent(components) /\ pc = "gen" /\ Top.at \in {"entry", "loop"}) =>
        /\ Ring(dll) = Available
        /\ \A j \in 0..(dll.n_items - 1) : Get(dll.n, j) >= 0

\* a later iteration of a candidate loop, after a candidate that had left
\* the ring was put back, while another symbol is used up
C13_Witness ==
    /\ ValidContent(components)
    /\ pc = "gen"
    /\ Top.at = "loop"
    /\ Top.j # dll.head
    /\ Top.j # -1
    /\ Get(dll.n, dll.head) = 1
    /\ \E j \in 0..(dll.n_items - 1) : Get(dll.n, j) = 0
    /\ Cardinality(Ring(dll)) >= 2

(***************************************************************************)
(* C14 as stated: get_bracelets yields the bracelets in strictly           *)
(* increasing lexicographic order, each sequence greater than the one      *)
(* yielded before it, so sorting the output changes nothing.               *)
(***************************************************************************)
C14_YieldedIncreasing ==
    ValidContent(components) =>
        /\ \A x \in 1..(Len(out) - 1) : LexLess(out[x], out[x + 1])
        /\ pc = "done" => bracelets = out

(***************************************************************************)
(* C14 as amended: get_bracelets yields the bracelets in strictly          *)
(* decreasing lexicographic order, each sequence smaller than the one      *)
(* yielded before it, so sorting the output reverses it.                   *)
(***************************************************************************)
C14_YieldedDecreasing ==
    ValidContent(components) =>
        /\ \A x \in 1..(Len(out) - 1) : LexLess(out[x + 1], out[x])
        /\ pc = "done" => bracelets = Reverse(out)

\* the constructor has sorted three or more yielded sequences, the first
\* and the last of which differ in their second symbol
C14_Witness ==
    /\ Built
    /\ Len(out) >= 3
    /\ out[1][2] > out[Len(out)][2]

(***************************************************************************)
(* C15: a completed sequence is emitted only when the period p equals      *)
(* n_tot and the reflection flag RS is false, and every emitted sequence   *)
(* is primitive: none is a shorter block repeated two or more times.       *)
(***************************************************************************)
C15_EmittedOnlyPrimitive ==
    [][out' # out =>
          /\ pc = "gen"
          /\ Top.at = "entry"
          /\ AtCompletion(Top)
          /\ CompletionP(Top) = dll.n_tot
          /\ ~CompletionRS(Top)
          /\ out' = Append(out, Top.a)
          /\ Primitive(Top.a)]_vars

\* after a sequence has been emitted, a completed sequence whose flag RS
\* is false is about to be dropped because its period is shorter
C15_Witness ==
    /\ ValidContent(components)
    /\ Len(out) >= 1
    /\ pc = "gen"
    /\ Top.at = "entry"
    /\ ~(PastMiddle(Top) /\ ~MirrorOK(Top))
    /\ AtCompletion(Top)
    /\ CompletionOK(Top)
    /\ ~CompletionRS(Top)
    /\ CompletionP(Top) < dll.n_tot
    /\ ~Primitive(Top.a)

(***************************************************************************)
(* C16: for every content vector of k >= 2 positive integers generation    *)
(* terminates: get_bracelets is exhausted after finitely many steps, so    *)
(* every candidate loop ends; the loop variable j is a symbol or -1; the   *)
(* depth t of a call never exceeds n_tot + 1; every index t-p-1 used to    *)
(* read a and run lies in 0..n_tot-1; and no IndexError is raised.         *)
(***************************************************************************)
\* a call reads run[t-p-1] in its completion branch and a[t-p-1] in its loop
ReadsIndex(f) == f.at # "entry" \/ AtCompletion(f)

FrameBounds ==
    /\ pc # "IndexError"
    /\ \A i \in 1..Len(stack) :
          /\ stack[i].t <= dll.n_tot + 1
          /\ Len(stack) <= dll.n_tot
          /\ stack[i].at # "entry" => stack[i].j \in -1..(dll.n_items - 1)
          /\ (i < Len(stack) \/ ReadsIndex(stack[i]))
                => stack[i].t - stack[i].p - 1 \in 0..(dll.n_tot - 1)

C16_Terminates ==
    /\ [](ValidContent(components) => FrameBounds)
    /\ ValidContent(components) => <>(pc = "exhausted")

\* get_bracelets is exhausted after a run over six or more positions that
\* yielded several sequences
C16_Witness ==
    /\ ValidContent(components)
    /\ pc = "exhausted"
    /\ dll.n_tot >= 6
    /\ Len(out) >= 3

====
